---- MODULE Spec2Model ----
(***************************************************************************)
(* Model of src/helper.py: the position state machine generate_positions,  *)
(* the P&L engine calculate_returns and the rolling estimator              *)
(* fit_rolling_params.                                                     *)
(*                                                                         *)
(* Each function is a frame of local variables (gp, cr, fr) that keeps the *)
(* source's names as field names.  Three specifications run one function   *)
(* each from every input of a bounded input set: SpecPos, SpecRet, SpecFit.*)
(*                                                                         *)
(* Python sequences are 0-based, TLA+ sequences 1-based: position p of a   *)
(* pandas Series is element p + 1 of the sequence that models it.          *)
(*                                                                         *)
(* Floating values are modelled as records [kind, num, den]: kind "fin" is *)
(* the rational num/den, kind "nan" is NaN, kind "inf" is +infinity        *)
(* (num = 1) or -infinity (num = -1).  Rounding of finite floats is not    *)
(* modelled: finite arithmetic is exact.                                   *)
(***************************************************************************)
EXTENDS Integers, Sequences, FiniteSets, TLC

VARIABLES gp, cr, fr

vars == <<gp, cr, fr>>

\* ------------------------------------------------------------------ bounds

\* longest z-score series fed to generate_positions
MaxLen == 3
\* finite z-scores range over -ZMax .. ZMax
ZMax == 3

\* ------------------------------------------------------- floating values

Fin(n) == [kind |-> "fin", num |-> n, den |-> 1]
NaN == [kind |-> "nan", num |-> 0, den |-> 0]
PInf == [kind |-> "inf", num |-> 1, den |-> 0]
NInf == [kind |-> "inf", num |-> -1, den |-> 0]

Abs(x) == IF x < 0 THEN -x ELSE x

\* a > c for a float a and a finite threshold c: every comparison with NaN is
\* False, +inf is above and -inf below every finite number
Gt_NaNTrue(a, c) ==
    CASE a.kind = "nan" -> TRUE
      [] a.kind = "inf" -> a.num > 0
      [] OTHER -> a.num > c * a.den
Gt(a, c) ==
    CASE a.kind = "nan" -> FALSE
      [] a.kind = "inf" -> a.num > 0
      [] OTHER -> a.num > c * a.den

\* a < c
Lt(a, c) ==
    CASE a.kind = "nan" -> FALSE
      [] a.kind = "inf" -> a.num < 0
      [] OTHER -> a.num < c * a.den

\* abs(a) < c: abs(NaN) is NaN, abs(+-inf) is +inf
AbsLt(a, c) ==
    CASE a.kind = "nan" -> FALSE
      [] a.kind = "inf" -> FALSE
      [] OTHER -> Abs(a.num) < c * a.den

\* ------------------------------------------------------ generate_positions

\* default of the stop_z parameter
DefaultStopZ == 3

EntryThresholds == {1, 2}
ExitThresholds == {0, 1, 3}
StopZs == {2, DefaultStopZ}

ZValues == {Fin(v) : v \in -ZMax..ZMax} \cup {NaN, PInf, NInf}

SeqsUpTo(S, n) == UNION {[1..k -> S] : k \in 0..n}

\* the result of one branch: the appended position and the new in_trade and
\* entry_side
Moved(p) == [pos |-> p, in_trade |-> p, entry_side |-> p]
Held(in_trade, entry_side) ==
    [pos |-> in_trade, in_trade |-> in_trade, entry_side |-> entry_side]

\* in_trade == 0
FlatBranch_Inclusive(z, entry_threshold) ==
    IF ~Lt(z, entry_threshold) /\ z.kind # "nan" THEN Moved(-1)
    ELSE IF ~Gt(z, -entry_threshold) /\ z.kind # "nan" THEN Moved(1)
    ELSE Held(0, 0)
FlatBranch(z, entry_threshold) ==
    IF Gt(z, entry_threshold) THEN Moved(-1)
    ELSE IF Lt(z, -entry_threshold) THEN Moved(1)
    ELSE Held(0, 0)

\* in_trade == 1
LongBranch_NoExit(z, exit_threshold, stop_z) ==
    IF Lt(z, -stop_z) THEN Moved(0)
    ELSE Held(1, 1)
LongBranch_Reverse(z, exit_threshold, stop_z) ==
    IF AbsLt(z, exit_threshold) THEN Moved(0)
    ELSE IF Lt(z, -stop_z) THEN Moved(-1)
    ELSE Held(1, 1)
LongBranch(z, exit_threshold, stop_z) ==
    IF AbsLt(z, exit_threshold) THEN Moved(0)
    ELSE IF Lt(z, -stop_z) THEN Moved(0)
    ELSE Held(1, 1)

\* in_trade == -1
ShortBranch_BothSides(z, exit_threshold, stop_z) ==
    IF AbsLt(z, exit_threshold) THEN Moved(0)
    ELSE IF Gt(z, stop_z) \/ Lt(z, -stop_z) THEN Moved(0)
    ELSE Held(-1, -1)
ShortBranch(z, exit_threshold, stop_z) ==
    IF AbsLt(z, exit_threshold) THEN Moved(0)
    ELSE IF Gt(z, stop_z) THEN Moved(0)
    ELSE Held(-1, -1)

Idle == [pc |-> "idle"]

GpInit ==
    \E zs \in SeqsUpTo(ZValues, MaxLen), en \in EntryThresholds,
       ex \in ExitThresholds, st \in StopZs :
        gp = [pc |-> "loop", zscore |-> zs, entry_threshold |-> en,
              exit_threshold |-> ex, stop_z |-> st,
              positions |-> <<>>, in_trade |-> 0, entry_side |-> 0, i |-> 0]

\* one iteration of the for loop; gp.i counts the iterations done, so the
\* iteration reads zscore.iloc[gp.i], element gp.i + 1
GpStep ==
    /\ gp.pc = "loop"
    /\ gp.i < Len(gp.zscore)
    /\ LET z == gp.zscore[gp.i + 1]
           r == CASE gp.in_trade = 0 -> FlatBranch(z, gp.entry_threshold)
                  [] gp.in_trade = 1 ->
                        LongBranch(z, gp.exit_threshold, gp.stop_z)
                  [] gp.in_trade = -1 ->
                        ShortBranch(z, gp.exit_threshold, gp.stop_z)
       IN gp' = [gp EXCEPT !.positions = Append(@, r.pos),
                           !.in_trade = r.in_trade,
                           !.entry_side = r.entry_side,
                           !.i = @ + 1]
    /\ UNCHANGED <<cr, fr>>

\* the loop is exhausted: return pd.Series(positions, index=zscore.index)
GpReturn ==
    /\ gp.pc = "loop"
    /\ gp.i = Len(gp.zscore)
    /\ gp' = [gp EXCEPT !.pc = "done"]
    /\ UNCHANGED <<cr, fr>>

InitPos == GpInit /\ cr = Idle /\ fr = Idle
NextPos == GpStep \/ GpReturn
SpecPos == InitPos /\ [][NextPos]_vars

\* ------------------------------------------------------- calculate_returns

\* most periods fed to calculate_returns
MaxPeriods == 2

PxValues == {-1, 0}
PyValues == {-1, 0}
BetaValues == {0, 1}
AlphaValues == {0, 1}
PositionValues == {-1, 0, 1}
\* the cost rate tc, a rational
TcValues == {[kind |-> "fin", num |-> 1, den |-> 1000]}

\* the alphas argument: None, or one value per timestamp
NoAlphas == [none |-> TRUE, val |-> <<>>]
SomeAlphas(a) == [none |-> FALSE, val |-> a]

\* pd.Series(0.0 if alphas is None else alphas, index=px.index)
AlphaSeries(alphas, n) ==
    IF alphas.none THEN [t \in 1..n |-> 0] ELSE alphas.val

\* spread = px - (alphas + betas * py)
Spread_SignSlip(px, py, betas, alphas) ==
    [t \in 1..Len(px) |-> (px[t] - alphas[t]) + betas[t] * py[t]]
Spread(px, py, betas, alphas) ==
    [t \in 1..Len(px) |-> px[t] - (alphas[t] + betas[t] * py[t])]

\* s.diff().fillna(0): diff() leaves NaN in the first row, fillna(0) makes
\* it 0
DiffFillna0(s) ==
    [t \in 1..Len(s) |-> IF t = 1 THEN 0 ELSE s[t] - s[t - 1]]

\* positions.shift(1).fillna(0): shift(1) leaves NaN in the first row
PosLag_NoShift(positions) == positions
PosLag(positions) ==
    [t \in 1..Len(positions) |-> IF t = 1 THEN 0 ELSE positions[t - 1]]

\* px.abs() + (betas.abs() * py.abs())
GrossNotional(px, py, betas) ==
    [t \in 1..Len(px) |-> Abs(px[t]) + Abs(betas[t]) * Abs(py[t])]

\* positions.diff().abs().fillna(0)
UnitsTraded(positions) ==
    [t \in 1..Len(positions) |->
        IF t = 1 THEN 0 ELSE Abs(positions[t] - positions[t - 1])]

\* gross_notional.shift(1): NaN in the first row, no fillna
CapitalShift(gross_notional) ==
    [t \in 1..Len(gross_notional) |->
        IF t = 1 THEN NaN ELSE Fin(gross_notional[t - 1])]

\* strategy_pnl - tc * gross_notional * units_traded, one period
NetOf(pnl, tc, notional, units) ==
    [kind |-> "fin", num |-> pnl * tc.den - tc.num * notional * units,
     den |-> tc.den]

\* a / b under np.errstate(divide="ignore", invalid="ignore"): a is finite,
\* b is NaN or a finite number >= 0 (a lagged gross notional)
TrueDiv(a, b) ==
    CASE b.kind = "nan" -> NaN
      [] b.num = 0 /\ a.num = 0 -> NaN
      [] b.num = 0 /\ a.num > 0 -> PInf
      [] b.num = 0 /\ a.num < 0 -> NInf
      [] OTHER -> [kind |-> "fin", num |-> a.num * b.den,
                   den |-> a.den * b.num]

ReplaceInf0(x) == IF x.kind = "inf" THEN Fin(0) ELSE x
Fillna0(x) == IF x.kind = "nan" THEN Fin(0) ELSE x

\* (pnl / capital_shift).replace([np.inf, -np.inf], 0).fillna(0), one period
PeriodReturn_NoFillna(pnl, capital) == ReplaceInf0(TrueDiv(pnl, capital))
PeriodReturn(pnl, capital) == Fillna0(ReplaceInf0(TrueDiv(pnl, capital)))

RECURSIVE SumTo(_, _)
SumTo(s, t) == IF t = 0 THEN 0 ELSE SumTo(s, t - 1) + s[t]

\* cumsum of an integer series
CumSum(s) == [t \in 1..Len(s) |-> SumTo(s, t)]
\* cumsum of a series of rationals that share the denominator den
CumSumNet(s, den) ==
    [t \in 1..Len(s) |->
        [kind |-> "fin", num |-> SumTo([k \in 1..Len(s) |-> s[k].num], t),
         den |-> den]]

\* the arguments of one call
Args(px, py, positions, betas, tc, alphas) ==
    [px |-> px, py |-> py, positions |-> positions, betas |-> betas,
     tc |-> tc, alphas |-> alphas]

\* the two-period scenario of the returns engine
Scenario ==
    Args(<<100, 101>>, <<50, 50>>, <<0, 1>>, <<1, 1>>,
         [kind |-> "fin", num |-> 1, den |-> 1000], SomeAlphas(<<0, 0>>))

CrInit ==
    \/ \E n \in 0..MaxPeriods :
         \E x \in [1..n -> PxValues], y \in [1..n -> PyValues],
            p \in [1..n -> PositionValues], b \in [1..n -> BetaValues],
            c \in TcValues :
             \/ cr = [pc |-> "called", in |-> Args(x, y, p, b, c, NoAlphas)]
             \/ \E a \in [1..n -> AlphaValues] :
                   cr = [pc |-> "called",
                         in |-> Args(x, y, p, b, c, SomeAlphas(a))]
    \/ cr = [pc |-> "called", in |-> Scenario]

\* the body of calculate_returns up to the cumulative dollar P&L; the
\* compounded returns and the Sharpe ratios (lines 80-88) are derived from
\* daily_return and daily_return_net and feed nothing back
CrCall ==
    /\ cr.pc = "called"
    /\ LET in == cr.in
           n == Len(in.px)
           betas == in.betas
           alphas == AlphaSeries(in.alphas, n)
           spread == Spread(in.px, in.py, betas, alphas)
           spread_change == DiffFillna0(spread)
           pos_lag == PosLag(in.positions)
           strategy_pnl == [t \in 1..n |-> pos_lag[t] * spread_change[t]]
           gross_notional == GrossNotional(in.px, in.py, betas)
           units_traded == UnitsTraded(in.positions)
           strategy_pnl_net ==
               [t \in 1..n |-> NetOf(strategy_pnl[t], in.tc,
                                     gross_notional[t], units_traded[t])]
           capital_shift == CapitalShift(gross_notional)
       IN cr' = [pc |-> "done", in |-> in,
                 spread |-> spread,
                 spread_change |-> spread_change,
                 pos_lag |-> pos_lag,
                 strategy_pnl |-> strategy_pnl,
                 gross_notional |-> gross_notional,
                 units_traded |-> units_traded,
                 strategy_pnl_net |-> strategy_pnl_net,
                 capital_shift |-> capital_shift,
                 daily_return |->
                     [t \in 1..n |-> PeriodReturn(Fin(strategy_pnl[t]),
                                                  capital_shift[t])],
                 daily_return_net |->
                     [t \in 1..n |-> PeriodReturn(strategy_pnl_net[t],
                                                  capital_shift[t])],
                 cum_pnl |-> CumSum(strategy_pnl),
                 cum_pnl_net |-> CumSumNet(strategy_pnl_net, in.tc.den)]
    /\ UNCHANGED <<gp, fr>>

InitRet == CrInit /\ gp = Idle /\ fr = Idle
NextRet == CrCall
SpecRet == InitRet /\ [][NextRet]_vars

\* ------------------------------------------------------ fit_rolling_params

\* longest price series fed to fit_rolling_params
MaxFitLen == 3
\* largest window
MaxWindow == 3

FitValues == {1, 2}

\* a pandas Series: element p + 1 is [t |-> label, v |-> value]; the index is
\* the default one, the label of position p is p
Series(vals) == [j \in 1..Len(vals) |-> [t |-> j - 1, v |-> vals[j]]]
Index(s) == [j \in 1..Len(s) |-> s[j].t]

\* s.iloc[a:b] (and idx[a:] with b = len) for 0 <= a, 0 <= b: the positions
\* a .. b-1 that exist
ILoc(s, a, b) ==
    IF a >= Len(s) \/ b <= a THEN <<>>
    ELSE SubSeq(s, a + 1, IF b > Len(s) THEN Len(s) ELSE b)

\* px.iloc[i - window:i]
Window_LookAhead(s, i, window) == ILoc(s, i - window + 1, i + 1)
Window(s, i, window) == ILoc(s, i - window, i)

\* sm.OLS(X, sm.add_constant(Y)).fit() and the unpacking of reg.params are
\* calls into statsmodels outside any try: they yield an estimate that is a
\* function of the two slices, or raise
OlsOutcomes == {"fitted", "raises"}
Estimate(f, X, Y) == [f |-> f, X |-> X, Y |-> Y]

\* coint(X, Y): a p-value, or an exception
CointPValues ==
    {Fin(0), [kind |-> "fin", num |-> 5, den |-> 100], Fin(1)}
CointOutcomes ==
    {[raises |-> TRUE, pval |-> NaN]}
        \cup {[raises |-> FALSE, pval |-> p] : p \in CointPValues}

\* try: _, pval, _ = coint(X, Y) / except Exception: pval = 1
TryCoint_Propagate(c) ==
    [pc |-> IF c.raises THEN "raised" ELSE "loop", pval |-> c.pval]
TryCoint(c) ==
    [pc |-> "loop", pval |-> IF c.raises THEN Fin(1) ELSE c.pval]

FrInit ==
    \E n \in 0..MaxFitLen, window \in 1..MaxWindow :
        \E x \in [1..n -> FitValues], y \in [1..n -> FitValues] :
            fr = [pc |-> "loop", px |-> Series(x), py |-> Series(y),
                  window |-> window, idx |-> Index(Series(x)),
                  i |-> window,
                  alphas |-> <<>>, betas |-> <<>>, means |-> <<>>,
                  stds |-> <<>>, pvals |-> <<>>, coint_calls |-> <<>>]

\* one iteration of the loop; fr.i is the value of i, which starts at window
\* (range(window, len(px))); coint_calls records, per iteration, the
\* arguments of coint and whether it raised (the except branch was taken)
FrStep ==
    /\ fr.pc = "loop"
    /\ fr.i < Len(fr.px)
    /\ \E ols \in OlsOutcomes, c \in CointOutcomes :
        LET X == Window(fr.px, fr.i, fr.window)
            Y == Window(fr.py, fr.i, fr.window)
            t == TryCoint(c)
        IN IF ols = "raises"
           THEN fr' = [fr EXCEPT !.pc = "raised"]
           ELSE fr' = [fr EXCEPT
                    !.alphas = Append(@, Estimate("alpha", X, Y)),
                    !.betas = Append(@, Estimate("beta", X, Y)),
                    !.means = Append(@, Estimate("spread.mean", X, Y)),
                    !.stds = Append(@, Estimate("spread.std", X, Y)),
                    !.coint_calls =
                        Append(@, [X |-> X, Y |-> Y, raises |-> c.raises]),
                    !.pvals = IF t.pc = "raised" THEN @
                              ELSE Append(@, t.pval),
                    !.pc = t.pc,
                    !.i = IF t.pc = "raised" THEN @ ELSE @ + 1]
    /\ UNCHANGED <<gp, cr>>

\* the loop is exhausted: idx = idx[window:] and the five Series are built
FrReturn ==
    /\ fr.pc = "loop"
    /\ fr.i >= Len(fr.px)
    /\ fr' = [fr EXCEPT !.pc = "done",
                        !.idx = ILoc(@, fr.window, Len(@))]
    /\ UNCHANGED <<gp, cr>>

InitFit == FrInit /\ gp = Idle /\ cr = Idle
NextFit == FrStep \/ FrReturn
SpecFit == InitFit /\ [][NextFit]_vars

\* ============================================================= properties

\* the z-score read by the iteration that is about to run
CurZ == gp.zscore[gp.i + 1]
\* this step is an iteration of the loop of generate_positions
IsGpStep == gp.pc = "loop" /\ gp'.pc = "loop" /\ gp'.i = gp.i + 1
\* the position the iteration appended
Appended == gp'.positions[gp'.i]

\* C1: an iteration that starts Long or Short and reads a z with
\* abs(z) < exit_threshold appends Flat and leaves the machine Flat.
C1_ExitPrecedence ==
    [][(IsGpStep /\ gp.in_trade # 0 /\ AbsLt(CurZ, gp.exit_threshold))
         => (Appended = 0 /\ gp'.in_trade = 0)]_vars

\* a trade was open, the next z was inside the exit band, and the position
\* went Flat
C1_Witness ==
    \E t \in 2..Len(gp.positions) :
        /\ gp.positions[t - 1] # 0
        /\ AbsLt(gp.zscore[t], gp.exit_threshold)
        /\ gp.positions[t] = 0

\* C2: the machine starts Flat, and an iteration that starts Flat appends
\* Short when z > entry_threshold, Long when z < -entry_threshold, and Flat
\* otherwise.
C2_FlatEntry ==
    /\ [](gp.pc = "loop" /\ gp.i = 0 => gp.in_trade = 0)
    /\ [][(IsGpStep /\ gp.in_trade = 0)
            => Appended = (IF Gt(CurZ, gp.entry_threshold) THEN -1
                           ELSE IF Lt(CurZ, -gp.entry_threshold) THEN 1
                           ELSE 0)]_vars

\* a z equal to entry_threshold left the machine Flat, and the next z, below
\* -entry_threshold, opened a Long from Flat
C2_Witness ==
    /\ Len(gp.positions) >= 2
    /\ gp.zscore[1] = Fin(gp.entry_threshold) /\ gp.positions[1] = 0
    /\ gp.zscore[2].kind = "fin" /\ gp.positions[2] = 1

\* C3: with abs(z) >= exit_threshold, a Long goes Flat exactly when
\* z < -stop_z and a Short goes Flat exactly when z > stop_z; otherwise the
\* position is held.
C3_StopDirection ==
    [][(IsGpStep /\ gp.in_trade # 0 /\ CurZ.kind # "nan"
          /\ ~AbsLt(CurZ, gp.exit_threshold))
         => /\ gp.in_trade = 1 =>
                 /\ Appended = 0 <=> Lt(CurZ, -gp.stop_z)
                 /\ Appended \in {0, 1}
            /\ gp.in_trade = -1 =>
                 /\ Appended = 0 <=> Gt(CurZ, gp.stop_z)
                 /\ Appended \in {0, -1}]_vars

\* a Short was held through a finite z below -stop_z, the side on which the
\* trade gains
C3_Witness ==
    \E t \in 2..Len(gp.positions) :
        /\ gp.positions[t - 1] = -1
        /\ gp.zscore[t].kind = "fin"
        /\ Lt(gp.zscore[t], -gp.stop_z)
        /\ gp.positions[t] = -1

\* C4 as stated: an iteration that reads a non-finite z (NaN, +inf or -inf)
\* leaves the machine in its state and appends that state.
C4_NonFiniteHolds ==
    [][(IsGpStep /\ CurZ.kind # "fin")
         => (Appended = gp.in_trade /\ gp'.in_trade = gp.in_trade)]_vars

\* C4 amended: an iteration that reads NaN leaves the machine in its state and
\* appends that state, whatever the state and the thresholds.
C4_NaNHolds ==
    [][(IsGpStep /\ CurZ.kind = "nan")
         => (Appended = gp.in_trade /\ gp'.in_trade = gp.in_trade
             /\ gp'.entry_side = gp.entry_side)]_vars

\* NaN arrived while Flat and again while a trade was open, and the call
\* returned
C4_Witness ==
    /\ gp.pc = "done"
    /\ Len(gp.positions) = 3
    /\ gp.zscore[1] = NaN /\ gp.positions[1] = 0
    /\ gp.positions[2] # 0
    /\ gp.zscore[3] = NaN /\ gp.positions[3] = gp.positions[2]

\* the float a/b of two records equals the float c/d
SameValue(a, b) ==
    a.kind = "fin" /\ b.kind = "fin" /\ a.num * b.den = b.num * a.den
IsZero(a) == SameValue(a, Fin(0))

\* calculate_returns has returned on the two-period scenario
OnScenario == cr.pc = "done" /\ cr.in = Scenario

\* C5 as stated: on the scenario the period-1 gross P&L is 0, the period-2
\* gross P&L is 1 x (spread[1] - spread[0]) = 1, and the period-2 net P&L is
\* that gross P&L minus 0.001 x 151.
C5_ScenarioAsStated ==
    OnScenario =>
        /\ cr.strategy_pnl[1] = 0
        /\ cr.strategy_pnl[2] = 1 * (cr.spread[2] - cr.spread[1])
        /\ cr.strategy_pnl[2] = 1 * (51 - 50)
        /\ SameValue(cr.strategy_pnl_net[2],
                     [kind |-> "fin", num |-> 1000 * 1 - 151, den |-> 1000])

\* C5 amended: on the scenario the period-1 gross P&L is 0, the period-2 gross
\* P&L is positions[0] x (spread[1] - spread[0]) = 0 x (51 - 50) = 0, and the
\* period-2 net P&L is that gross P&L minus 0.001 x 151 x 1.
C5_Scenario ==
    OnScenario =>
        /\ cr.spread = <<50, 51>>
        /\ cr.strategy_pnl[1] = 0
        /\ cr.strategy_pnl[2] = cr.in.positions[1] * (51 - 50)
        /\ cr.strategy_pnl[2] = 0
        /\ cr.gross_notional[2] = 151
        /\ SameValue(cr.strategy_pnl_net[2],
                     [kind |-> "fin", num |-> 0 - 151, den |-> 1000])

C5_Witness == OnScenario /\ cr.units_traded = <<0, 1>>

\* the spread of period t computed from the arguments
SpreadAt(in, t) ==
    in.px[t] - ((IF in.alphas.none THEN 0 ELSE in.alphas.val[t])
                + in.betas[t] * in.py[t])

\* C6: the gross P&L of period t >= 1 is positions[t-1] x (spread[t] -
\* spread[t-1]), and the gross P&L of the first period is 0.
C6_LaggedPnl ==
    cr.pc = "done" =>
        \A t \in 1..Len(cr.in.px) :
            cr.strategy_pnl[t] =
                IF t = 1 THEN 0
                ELSE cr.in.positions[t - 1]
                       * (SpreadAt(cr.in, t) - SpreadAt(cr.in, t - 1))

\* the position changes between the two periods, the spread moves, and the
\* P&L of the second period is the one of the first period's position
C6_Witness ==
    /\ cr.pc = "done" /\ Len(cr.in.px) = 2
    /\ cr.in.positions = <<1, -1>>
    /\ cr.spread[2] - cr.spread[1] = 1
    /\ cr.strategy_pnl = <<0, 1>>

\* the gross notional of period t computed from the arguments
NotionalAt(in, t) == Abs(in.px[t]) + Abs(in.betas[t]) * Abs(in.py[t])

\* C7: the gross and the net return of the first period, and of every period
\* whose lagged gross notional is 0, are exactly 0.
C7_ZeroNotionalReturn ==
    cr.pc = "done" =>
        \A t \in 1..Len(cr.in.px) :
            (t = 1 \/ NotionalAt(cr.in, t - 1) = 0)
                => IsZero(cr.daily_return[t]) /\ IsZero(cr.daily_return_net[t])

\* the lagged gross notional is 0 while the gross and the net P&L of the
\* period are negative (a division x/0)
C7_Witness ==
    /\ cr.pc = "done" /\ Len(cr.in.px) = 2
    /\ cr.gross_notional[1] = 0
    /\ cr.strategy_pnl[2] < 0
    /\ cr.strategy_pnl_net[2].num < 0
    /\ cr.daily_return[2] = Fin(0)

\* the elements of s at the 0-based positions k .. k + w - 1
Positions(s, k, w) == [j \in 1..w |-> s[k + j]]

\* C8: when fit_rolling_params returns, each of the five series has
\* len(px) - window entries (none when window >= len(px)); entry k is
\* labelled px.index[window + k] and was computed from the positions
\* [k, k + window) of px and py, all of them before that label.
C8_WindowNoLookAhead ==
    fr.pc = "done" =>
        LET n == Len(fr.px)
            w == fr.window
            m == IF n > w THEN n - w ELSE 0
        IN /\ Len(fr.idx) = m
           /\ \A out \in {fr.alphas, fr.betas, fr.means, fr.stds,
                          fr.coint_calls} :
                /\ Len(out) = m
                /\ \A k \in 0..(m - 1) :
                     /\ out[k + 1].X = Positions(fr.px, k, w)
                     /\ out[k + 1].Y = Positions(fr.py, k, w)
                     /\ \A j \in 1..w : out[k + 1].X[j].t < fr.idx[k + 1]
           /\ Len(fr.pvals) = m
           /\ \A k \in 0..(m - 1) : fr.idx[k + 1] = fr.px[w + k + 1].t

\* a return with two estimates, each from a window of one price
C8_Witness ==
    /\ fr.pc = "done"
    /\ fr.window = 1 /\ Len(fr.px) = 3
    /\ Len(fr.alphas) = 2
    /\ fr.idx = <<1, 2>>

\* C9: an iteration in which coint raises records the p-value 1 and the
\* four estimates, and goes on to the next timestamp: the exception does not
\* leave the loop.
C9_CointFailureCaught ==
    [][(/\ fr.pc = "loop"
        /\ Len(fr'.coint_calls) = Len(fr.coint_calls) + 1
        /\ fr'.coint_calls[Len(fr'.coint_calls)].raises)
         => /\ fr'.pc = "loop"
            /\ fr'.i = fr.i + 1
            /\ fr'.pvals = Append(fr.pvals, Fin(1))
            /\ \A f \in {"alphas", "betas", "means", "stds"} :
                  Len(fr'[f]) = Len(fr[f]) + 1
            /\ Len(fr'.alphas) = Len(fr'.pvals)]_vars

\* coint raised at the first of two timestamps, the second was fitted too and
\* the call returned
C9_Witness ==
    /\ fr.pc = "done"
    /\ Len(fr.pvals) = 2
    /\ fr.coint_calls[1].raises /\ fr.pvals[1] = Fin(1)
    /\ ~fr.coint_calls[2].raises /\ fr.pvals[2] # Fin(1)
    /\ Len(fr.alphas) = 2 /\ Len(fr.stds) = 2

\* C10: consecutive positions differ by at most 1, so the turnover
\* calculate_returns derives from the sequence is never 2.
C10_NoDirectReversal ==
    /\ \A t \in 2..Len(gp.positions) :
          Abs(gp.positions[t] - gp.positions[t - 1]) \in {0, 1}
    /\ \A t \in 1..Len(gp.positions) :
          UnitsTraded(gp.positions)[t] \in {0, 1}

\* a Long and a later Short with a Flat timestamp between them
C10_Witness ==
    /\ gp.pc = "done"
    /\ gp.positions = <<1, 0, -1>>

====
